---- MODULE Spec2Model ----
(***************************************************************************)
(* A model of boids2 (src/src/main.js): the tile map (nearest-centre       *)
(* classification and Map.liminalize), the flock (the rules, Boid.simulate *)
(* and BoidManager.simulate) and the page's handlers (resize, the          *)
(* zero-delay timeout that runs Game.init, the 16 ms interval, mousemove). *)
(*                                                                         *)
(* Numbers.  gl-matrix vectors are Float32Arrays.  A number is modelled as *)
(* a record [nan, v]: v counts steps of 1/UNIT (fixed point), nan marks    *)
(* IEEE NaN.  Additions are exact; a scaling by 1/k rounds to the nearest  *)
(* step, as the float store rounds to the nearest representable value.     *)
(* Grid coordinates, canvas sizes and pixel positions are plain integers.  *)
(***************************************************************************)
EXTENDS Integers, Sequences, FiniteSets

VARIABLES
  clientWidth,    \* document.documentElement.clientWidth
  clientHeight,   \* document.documentElement.clientHeight
  canvas,         \* [width, height] of the canvas element
  timeouts,       \* pending setTimeout(..., 0) callbacks of resizeCanvas, in
                  \* firing order; TRUE: the callback argument is game.init
  game,           \* the fields of the Game object and what init started
  centerPoints,   \* game.centerPoints
  map,            \* game.map: [built, width, height, array]
  boids,          \* game.boidManager.boids: sequence of [position, velocity]
  frameCount,     \* the global frameCount
  mousePosition,  \* the global mousePosition, in client pixels
  last,           \* history: the state the latest Game.simulate started from
  count           \* history: how often each handler ran (bounds the model);
                  \* lateResizes: the resize events that came after Game.init

vars == <<clientWidth, clientHeight, canvas, timeouts, game, centerPoints, map,
          boids, frameCount, mousePosition, last, count>>

----------------------------------------------------------------------------
(* Bounds of the model *)

MaxW == 3            \* SpecMap: widest map
MaxH == 2            \* SpecMap: tallest map
MaxSeeds == 2        \* SpecMap: longest seed list
MaxLiminalize == 2   \* SpecMap: calls of liminalize after generation
MaxBoids == 3        \* SpecFlock: largest flock
MaxFrames == 7       \* timer firings
MaxMouseMoves == 1   \* mousemove events
MaxResizes == 1      \* resize events
UNIT == 1000         \* fixed-point steps per 1.0

(* Program constants *)

PIXEL_SIZE == 8
BOID_THINK_RATE == 6
NUM_CENTER_POINTS == 80
NUM_BOIDS == 20
DISTANCE_THRESHOLD == 10
\* The rule weights are all reciprocals: 0.01, 1.0, 1.0 / 8.0, 0.10, 1.0 / 50.0
CENTER_OF_MASS_DIV == 100
AVOIDANCE_DIV == 1
MATCH_VELOCITY_DIV == 8
SLOW_DOWN_DIV == 10
ATTRACT_DIV == 50
MAX_VALUE == 2147483647   \* stands for Number.MAX_VALUE: above every distance
UNDEFINED == -1           \* MapTile.kind before classification

----------------------------------------------------------------------------
(* Arithmetic *)

Max(a, b) == IF a >= b THEN a ELSE b
Min(a, b) == IF a <= b THEN a ELSE b

\* Math.ceil(n / d) for n >= 0, d > 0
Ceil(n, d) == (n + d - 1) \div d

\* n / d rounded to the nearest integer (d > 0)
RoundDiv(n, d) == (2 * n + d) \div (2 * d)

Num(v) == [nan |-> FALSE, v |-> v]
NaN == [nan |-> TRUE, v |-> 0]

fadd(a, b) == IF a.nan \/ b.nan THEN NaN ELSE Num(a.v + b.v)
fsub(a, b) == IF a.nan \/ b.nan THEN NaN ELSE Num(a.v - b.v)
\* a * (1.0 / k).  1.0 / 0 is Infinity, and 0 * Infinity is NaN: the callers
\* scale by 1.0 / 0 only an accumulator nothing was added to.
fdiv(a, k) == IF a.nan \/ k = 0 THEN NaN ELSE Num(RoundDiv(a.v, k))

\* vec2.create(), vec2.fromValues(x, y) for integers x, y
Zero == <<Num(0), Num(0)>>
FromValues(x, y) == <<Num(x * UNIT), Num(y * UNIT)>>
\* vec2.add, vec2.sub, vec2.scale(out, a, 1.0 / k), vec2.negate
VAdd(a, b) == <<fadd(a[1], b[1]), fadd(a[2], b[2])>>
VSub(a, b) == <<fsub(a[1], b[1]), fsub(a[2], b[2])>>
VScaleInv(a, k) == <<fdiv(a[1], k), fdiv(a[2], k)>>
VNegate(a) == VSub(Zero, a)
IsNaN(a) == a[1].nan \/ a[2].nan

\* Mutant of SqrDistLess: the boundary counts as near
SqrDistLessOrEqual(a, b, threshold) ==
  /\ ~IsNaN(a) /\ ~IsNaN(b)
  /\   (b[1].v - a[1].v) * (b[1].v - a[1].v)
     + (b[2].v - a[2].v) * (b[2].v - a[2].v) <= threshold * UNIT * UNIT

\* vec2.sqrDist(a, b) < threshold; a comparison with NaN is false
SqrDistLess(a, b, threshold) ==
  /\ ~IsNaN(a) /\ ~IsNaN(b)
  /\   (b[1].v - a[1].v) * (b[1].v - a[1].v)
     + (b[2].v - a[2].v) * (b[2].v - a[2].v) < threshold * UNIT * UNIT

----------------------------------------------------------------------------
(* The tile map *)

\* pointsInScreen(width, height): the cells row by row
PointsInScreen(w, h) ==
  [i \in 1..(Max(w, 0) * Max(h, 0)) |-> <<(i - 1) % w, (i - 1) \div w>>]

\* The array index of cell (x, y), 1-based: y * width + x
Idx(m, x, y) == y * m.width + x + 1

\* new MapTile(map, point)
NewTile == [kind |-> UNDEFINED, edgeFactor |-> 0]

\* new Map(width, height); new Array(n) throws a RangeError for n < 0
NewMap(w, h) ==
  [built |-> TRUE, width |-> w, height |-> h,
   array |-> [i \in 1..Len(PointsInScreen(w, h)) |-> NewTile]]

NoMap == [built |-> FALSE, width |-> 0, height |-> 0, array |-> <<>>]

\* sqrDist of two grid points (small integers: exact in float32)
GridSqrDist(p, q) == (p[1] - q[1]) * (p[1] - q[1]) + (p[2] - q[2]) * (p[2] - q[2])

\* Mutant of Closer: a later centre point at the same distance wins
CloserOrEqual(squaredDistance, minDistance) == squaredDistance <= minDistance

\* squaredDistance < minDistance
Closer(squaredDistance, minDistance) == squaredDistance < minDistance

\* The inner loop of Game.init keeps minDistance and curCenterPoint (here its
\* index); n is the index of the centre point the next iteration looks at
NearestStart == [n |-> 1, minDistance |-> MAX_VALUE, curCenterPoint |-> 0]

\* One iteration of the inner loop of Game.init
NearestStep(cps, point, st) ==
  LET squaredDistance == GridSqrDist(point, cps[st.n].point)
  IN  IF Closer(squaredDistance, st.minDistance)
      THEN [n |-> st.n + 1, minDistance |-> squaredDistance,
            curCenterPoint |-> st.n]
      ELSE [st EXCEPT !.n = st.n + 1]

\* The iterations st.n .. hi of the inner loop, in order: those up to the
\* middle index, then the rest
RECURSIVE NearestScan(_, _, _, _)
NearestScan(cps, point, hi, st) ==
  IF st.n > hi THEN st
  ELSE IF st.n = hi THEN NearestStep(cps, point, st)
  ELSE NearestScan(cps, point, hi,
                   NearestScan(cps, point, (st.n + hi) \div 2, st))

\* The outer loop of Game.init: every tile gets curCenterPoint.kind
Classify(m, cps) ==
  [m EXCEPT !.array =
     [i \in 1..Len(m.array) |->
        [m.array[i] EXCEPT
           !.kind = cps[NearestScan(cps, PointsInScreen(m.width, m.height)[i],
                                    Len(cps), NearestStart).curCenterPoint].kind]]]

\* MapTile.neighbors(): the tiles the generator yields, in its order (n = 1)
NeighborOffsets == <<<<-1, -1>>, <<0, -1>>, <<1, -1>>,
                     <<-1, 0>>,  <<0, 0>>,  <<1, 0>>,
                     <<-1, 1>>,  <<0, 1>>,  <<1, 1>>>>

Yielded(m, px, py, x, y) ==
  /\ x # px /\ y # py
  /\ x >= 0 /\ y >= 0
  /\ x < m.width /\ y < m.height

\* The offsets whose cell the generator yields, in the order of its loops
YieldedOffsets(m, px, py) ==
  SelectSeq(NeighborOffsets,
            LAMBDA d : Yielded(m, px, py, px + d[1], py + d[2]))

Neighbors(m, px, py) ==
  LET ds == YieldedOffsets(m, px, py)
  IN  [k \in 1..Len(ds) |-> m.array[Idx(m, px + ds[k][1], py + ds[k][2])]]

\* Mutant of EdgeStep: the neighbor's edge factor is taken without comparing
EdgeStepNoCompare(maxEdge, tile, neighbor) ==
  IF neighbor.kind # tile.kind /\ maxEdge = 0 THEN 1 ELSE neighbor.edgeFactor

\* One iteration of the neighbor loop of liminalize
EdgeStep(maxEdge, tile, neighbor) ==
  IF neighbor.kind # tile.kind /\ maxEdge = 0 THEN 1
  ELSE IF neighbor.edgeFactor > maxEdge THEN neighbor.edgeFactor
  ELSE maxEdge

\* The neighbor loop from the n-th neighbor on
RECURSIVE MaxEdge(_, _, _, _)
MaxEdge(tile, nbrs, n, maxEdge) ==
  IF n > Len(nbrs) THEN maxEdge
  ELSE MaxEdge(tile, nbrs, n + 1, EdgeStep(maxEdge, tile, nbrs[n]))

\* Map.liminalize(): all edge factors are computed, then all are stored
Liminalize(m) ==
  [m EXCEPT !.array =
     [i \in 1..Len(m.array) |->
        LET p == PointsInScreen(m.width, m.height)[i]
            nbrs == Neighbors(m, p[1], p[2])
        IN  [m.array[i] EXCEPT
               !.edgeFactor = MaxEdge(m.array[i], nbrs, 1, 0)]]]

\* randomVecInArea(width, height): floor(|cos t| * s * width, |sin t| * s *
\* height) for an angle t and a length 0 <= s < 1, so the cell lies inside
\* the quarter ellipse with half-axes width and height
RandomCells(w, h) ==
  {c \in (0..Max(w - 1, 0)) \X (0..Max(h - 1, 0)) :
     \/ c[1] = 0
     \/ c[2] = 0
     \/ (c[1] * h) * (c[1] * h) + (c[2] * w) * (c[2] * w) < (w * h) * (w * h)}

\* new CenterPoint(point, kind)
CenterPoint(point, kind) == [point |-> point, kind |-> kind]

----------------------------------------------------------------------------
(* The flock *)

\* new Boid(manager, position): velocity is vec2.fromValues(0, 0)
NewBoid(cell) == [position |-> FromValues(cell[1], cell[2]), velocity |-> Zero]

\* Boid.otherBoids(): the boids of the manager whose id differs, in order
\* (shortid ids are unique, so a boid equals only itself)
OtherBoids(bs, i) == [k \in 1..(Len(bs) - 1) |-> bs[IF k < i THEN k ELSE k + 1]]

\* The loops over otherBoids().  A loop's state st is the index n of the boid
\* the next iteration looks at and the accumulator acc.  The iterations
\* st.n .. hi run in order: those up to the middle index, then the rest.
LoopStart == [n |-> 1, acc |-> Zero]

RECURSIVE SumPositions(_, _, _)
SumPositions(others, hi, st) ==
  IF st.n > hi THEN st
  ELSE IF st.n = hi
  THEN [n |-> st.n + 1, acc |-> VAdd(st.acc, others[st.n].position)]
  ELSE SumPositions(others, hi, SumPositions(others, (st.n + hi) \div 2, st))

RECURSIVE SumVelocities(_, _, _)
SumVelocities(others, hi, st) ==
  IF st.n > hi THEN st
  ELSE IF st.n = hi
  THEN [n |-> st.n + 1, acc |-> VAdd(st.acc, others[st.n].velocity)]
  ELSE SumVelocities(others, hi, SumVelocities(others, (st.n + hi) \div 2, st))

\* CenterOfMassRule.applyImpl(target)
CenterOfMassRule(bs, i) ==
  LET others == OtherBoids(bs, i)
      numOtherBoids == Len(others)
      centerOfMass == VScaleInv(SumPositions(others, numOtherBoids, LoopStart).acc,
                                numOtherBoids)
  IN  VSub(centerOfMass, bs[i].position)

\* One iteration of the loop of AvoidanceRule.applyImpl
AvoidanceStep(result, target, otherBoid) ==
  IF SqrDistLess(target.position, otherBoid.position, DISTANCE_THRESHOLD)
  THEN VAdd(VSub(result, target.position), otherBoid.position)
  ELSE result

RECURSIVE AvoidanceScan(_, _, _, _)
AvoidanceScan(target, others, hi, st) ==
  IF st.n > hi THEN st
  ELSE IF st.n = hi
  THEN [n |-> st.n + 1, acc |-> AvoidanceStep(st.acc, target, others[st.n])]
  ELSE AvoidanceScan(target, others, hi,
                     AvoidanceScan(target, others, (st.n + hi) \div 2, st))

\* AvoidanceRule.applyImpl(target)
AvoidanceRule(bs, i) ==
  LET others == OtherBoids(bs, i)
  IN  AvoidanceScan(bs[i], others, Len(others), LoopStart).acc

\* MatchVelocityRule.applyImpl(target)
MatchVelocityRule(bs, i) ==
  LET others == OtherBoids(bs, i)
      numOtherBoids == Len(others)
      result == VScaleInv(SumVelocities(others, numOtherBoids, LoopStart).acc,
                          numOtherBoids)
  IN  VSub(result, bs[i].velocity)

\* SlowDownRule.applyImpl(target)
SlowDownRule(bs, i) == VNegate(bs[i].velocity)

\* AttractToPointRule.applyImpl(target)
AttractToPointRule(bs, i, targetPoint) == VSub(targetPoint, bs[i].position)

\* Map.screenToLocal(point): the pixel position over PIXEL_SIZE, clamped to
\* [0, width] x [0, height]
ScreenToLocal(m, point) ==
  <<Num(Max(0, Min(RoundDiv(point[1] * UNIT, PIXEL_SIZE), m.width * UNIT))),
    Num(Max(0, Min(RoundDiv(point[2] * UNIT, PIXEL_SIZE), m.height * UNIT)))>>

\* BoidRule.apply for each of baseRules, then the AttractToPointRule: the
\* results array of Boid.simulate
RuleResults(bs, i, mouse, m) ==
  <<VScaleInv(CenterOfMassRule(bs, i), CENTER_OF_MASS_DIV),
    VScaleInv(AvoidanceRule(bs, i), AVOIDANCE_DIV),
    VScaleInv(MatchVelocityRule(bs, i), MATCH_VELOCITY_DIV),
    VScaleInv(SlowDownRule(bs, i), SLOW_DOWN_DIV),
    VScaleInv(AttractToPointRule(bs, i, ScreenToLocal(m, mouse)), ATTRACT_DIV)>>

\* results.forEach(result => vec2.add(this.velocity, this.velocity, result))
RECURSIVE AddAll(_, _, _)
AddAll(v, results, n) ==
  IF n > Len(results) THEN v ELSE AddAll(VAdd(v, results[n]), results, n + 1)

\* frameCount % BOID_THINK_RATE === 0
Thinks(fc) == fc % BOID_THINK_RATE = 0

\* Mutant of BoidSimulate: the position moves by the whole velocity
BoidSimulateUnscaled(bs, i, fc, mouse, m) ==
  LET results == RuleResults(bs, i, mouse, m)
      velocity == IF Thinks(fc) THEN AddAll(bs[i].velocity, results, 1)
                  ELSE bs[i].velocity
  IN  [position |-> VAdd(bs[i].position, velocity), velocity |-> velocity]

\* Boid.simulate() of the boid at index i: the boid afterwards
BoidSimulate(bs, i, fc, mouse, m) ==
  LET results == RuleResults(bs, i, mouse, m)
      velocity == IF Thinks(fc) THEN AddAll(bs[i].velocity, results, 1)
                  ELSE bs[i].velocity
      effectiveVelocity == VScaleInv(velocity, BOID_THINK_RATE)
  IN  [position |-> VAdd(bs[i].position, effectiveVelocity), velocity |-> velocity]

\* One iteration of the loop of BoidManager.simulate(): boid.simulate() reads
\* and writes the one array
SimulateStep(st, fc, mouse, m) ==
  [n |-> st.n + 1,
   boids |-> [st.boids EXCEPT
                ![st.n] = BoidSimulate(st.boids, st.n, fc, mouse, m)]]

\* The iterations st.n .. hi of that loop, in order: those up to the middle
\* index, then the rest
RECURSIVE SimulateFrom(_, _, _, _, _)
SimulateFrom(hi, st, fc, mouse, m) ==
  IF st.n > hi THEN st
  ELSE IF st.n = hi THEN SimulateStep(st, fc, mouse, m)
  ELSE SimulateFrom(hi, SimulateFrom((st.n + hi) \div 2, st, fc, mouse, m),
                    fc, mouse, m)

\* Mutant of BoidManagerSimulate: every boid is updated from the array as it
\* was before the tick
SimulateFromSnapshot(bs, fc, mouse, m) ==
  [i \in 1..Len(bs) |-> BoidSimulate(bs, i, fc, mouse, m)]

\* BoidManager.simulate(): this.boids afterwards
BoidManagerSimulate(bs, fc, mouse, m) ==
  SimulateFrom(Len(bs), [n |-> 1, boids |-> bs], fc, mouse, m).boids

----------------------------------------------------------------------------
(* The inputs the model draws *)

FlockW == 5          \* SpecFlock: width of the manager's map
FlockH == 2          \* SpecFlock: height of the manager's map

\* Cells a boid of SpecFlock may start on
StartCells == {<<0, 0>>, <<1, 0>>, <<3, 1>>, <<4, 0>>} \cap RandomCells(FlockW, FlockH)

\* Pixel positions a mousemove event may report (e.clientX, e.clientY)
MousePixels == {<<20, 12>>, <<100, 100>>}

\* Viewport widths and heights, in pixels
Viewports == {0, 8, 20}

\* Outcomes of the Math.random() calls of one Game.init: the i-th cell drawn
\* and the i-th kind drawn, for a few fixed streams r
Streams == 1..2
CellSeq(w, h) ==
  SelectSeq(PointsInScreen(Max(w, 1), Max(h, 1)), LAMBDA c : c \in RandomCells(w, h))
DrawCell(r, i, cells) == cells[((r * i + i * i + r) % Len(cells)) + 1]
DrawKind(r, i) == (i \div r) % 2

\* All seed lists of length 1..n over the cells randomVecInArea can return
SeedLists(w, h, n) ==
  UNION {[1..k -> {CenterPoint(c, kd) : c \in RandomCells(w, h), kd \in {0, 1}}] :
           k \in 1..n}

----------------------------------------------------------------------------
(* State *)

NoGame == [imageData |-> FALSE, boidManager |-> FALSE, rendering |-> FALSE,
           interval |-> FALSE, error |-> "none"]

NoCount == [inits |-> 0, resizes |-> 0, lateResizes |-> 0, mouseMoves |-> 0,
            liminalize |-> 0, generated |-> 0]

NoLast == [fired |-> FALSE, boids |-> <<>>, mouse |-> <<0, 0>>, frame |-> 0]

\* The page after main.js has run: resizeCanvas(() => {game.init();}) has set
\* its timeout, the listeners are registered, frameCount is 0
InitGame ==
  /\ clientWidth \in Viewports
  /\ clientHeight \in Viewports
  /\ canvas = [width |-> 300, height |-> 150]   \* the default size of a canvas
  /\ timeouts = <<TRUE>>
  /\ game = NoGame
  /\ centerPoints = <<>>
  /\ map = NoMap
  /\ boids = <<>>
  /\ frameCount = 0
  /\ mousePosition = <<0, 0>>
  /\ last = NoLast
  /\ count = NoCount

\* A Map just constructed and a seed list: the inputs of map generation
InitMap ==
  /\ clientWidth = 0 /\ clientHeight = 0
  /\ \E w \in 1..MaxW, h \in 1..MaxH :
       /\ canvas = [width |-> w, height |-> h]
       /\ map = NewMap(w, h)
       /\ centerPoints \in SeedLists(w, h, MaxSeeds)
  /\ timeouts = <<>>
  /\ game = NoGame
  /\ boids = <<>>
  /\ frameCount = 0
  /\ mousePosition = <<0, 0>>
  /\ last = NoLast
  /\ count = NoCount

\* new BoidManager(map, numBoids) over a map, its simulate driven by the timer
InitFlock ==
  /\ clientWidth = FlockW * PIXEL_SIZE /\ clientHeight = FlockH * PIXEL_SIZE
  /\ canvas = [width |-> FlockW, height |-> FlockH]
  /\ map = NewMap(FlockW, FlockH)
  /\ centerPoints = <<>>
  /\ \E n \in 1..MaxBoids : \E cells \in [1..n -> StartCells] :
       boids = [i \in 1..n |-> NewBoid(cells[i])]
  /\ timeouts = <<>>
  /\ game = [NoGame EXCEPT !.boidManager = TRUE, !.interval = TRUE]
  /\ frameCount = 0
  /\ mousePosition = <<0, 0>>
  /\ last = NoLast
  /\ count = NoCount

----------------------------------------------------------------------------
(* Handlers *)

\* window 'resize': the viewport has a new size; resizeCanvas() sets a
\* timeout with no callback
Resize ==
  /\ count.resizes < MaxResizes
  /\ \E w \in Viewports, h \in Viewports :
       /\ <<w, h>> # <<clientWidth, clientHeight>>
       /\ clientWidth' = w
       /\ clientHeight' = h
  /\ timeouts' = Append(timeouts, FALSE)
  /\ count' = [count EXCEPT !.resizes = @ + 1,
                            !.lateResizes = @ + (IF count.inits >= 1 THEN 1 ELSE 0)]
  /\ UNCHANGED <<canvas, game, centerPoints, map, boids, frameCount,
                 mousePosition, last>>

\* The centre points and the boids' cells Game.init draws with random stream r
DrawCenterPoints(r, width, height) ==
  LET cells == CellSeq(width, height)
  IN  [i \in 1..NUM_CENTER_POINTS |->
         CenterPoint(DrawCell(r, i, cells), DrawKind(r, i))]

DrawBoids(r, width, height) ==
  LET cells == CellSeq(width, height)
  IN  [i \in 1..NUM_BOIDS |-> NewBoid(DrawCell(r, NUM_CENTER_POINTS + i, cells))]

\* Game.init() on a canvas of width x height, with random stream r.
\* ctx.createImageData(sw, sh) throws an IndexSizeError when sw or sh is 0
\* (HTML canvas): init then ends at this.map.toImageData(ctx), after
\* this.centerPoints and this.map were assigned.
GameInit(r, width, height) ==
  /\ centerPoints' = DrawCenterPoints(r, width, height)
  /\ map' = Liminalize(Classify(NewMap(width, height), centerPoints'))
  /\ IF width = 0 \/ height = 0
     THEN /\ game' = [game EXCEPT !.error = "IndexSizeError"]
          /\ boids' = boids
     ELSE /\ game' = [game EXCEPT !.imageData = TRUE, !.boidManager = TRUE,
                                  !.rendering = TRUE, !.interval = TRUE]
          /\ boids' = DrawBoids(r, width, height)
  /\ count' = [count EXCEPT !.inits = @ + 1]

\* The timeout of resizeCanvas fires: the canvas takes the viewport's size
\* over PIXEL_SIZE, then the callback runs, if one was given
TimeoutFires ==
  /\ timeouts # <<>>
  /\ timeouts' = Tail(timeouts)
  /\ canvas' = [width |-> Ceil(clientWidth, PIXEL_SIZE),
                height |-> Ceil(clientHeight, PIXEL_SIZE)]
  /\ IF Head(timeouts)
     THEN \E r \in Streams :
            GameInit(r, Ceil(clientWidth, PIXEL_SIZE), Ceil(clientHeight, PIXEL_SIZE))
     ELSE UNCHANGED <<game, centerPoints, map, boids, count>>
  /\ UNCHANGED <<clientWidth, clientHeight, frameCount, mousePosition, last>>

\* The setInterval callback: Game.simulate()
Simulate ==
  /\ game.interval
  /\ frameCount < MaxFrames
  /\ boids' = BoidManagerSimulate(boids, frameCount, mousePosition, map)
  /\ frameCount' = frameCount + 1
  /\ last' = [fired |-> TRUE, boids |-> boids, mouse |-> mousePosition,
              frame |-> frameCount]
  /\ UNCHANGED <<clientWidth, clientHeight, canvas, timeouts, game, centerPoints,
                 map, mousePosition, count>>

\* canvas 'mousemove': vec2.set(mousePosition, e.clientX, e.clientY)
MouseMove ==
  /\ count.mouseMoves < MaxMouseMoves
  /\ \E p \in MousePixels :
       /\ p # mousePosition
       /\ mousePosition' = p
  /\ count' = [count EXCEPT !.mouseMoves = @ + 1]
  /\ UNCHANGED <<clientWidth, clientHeight, canvas, timeouts, game, centerPoints,
                 map, boids, frameCount, last>>

\* Lines 361-377 of Game.init on a fresh map: classification, then liminalize
Generate ==
  /\ count.generated = 0
  /\ map' = Liminalize(Classify(map, centerPoints))
  /\ count' = [count EXCEPT !.generated = 1, !.liminalize = 1]
  /\ UNCHANGED <<clientWidth, clientHeight, canvas, timeouts, game, centerPoints,
                 boids, frameCount, mousePosition, last>>

\* game.map.liminalize() called again on the generated map
LiminalizeAgain ==
  /\ count.generated = 1
  /\ count.liminalize <= MaxLiminalize
  /\ map' = Liminalize(map)
  /\ count' = [count EXCEPT !.liminalize = @ + 1]
  /\ UNCHANGED <<clientWidth, clientHeight, canvas, timeouts, game, centerPoints,
                 boids, frameCount, mousePosition, last>>

----------------------------------------------------------------------------
(* Specifications *)

\* Game.render (the requestAnimationFrame loop) only reads the state: it puts
\* this.imageData and draws the boids, so it is a stuttering step here.
NextGame == Resize \/ TimeoutFires \/ Simulate \/ MouseMove
NextMap == Generate \/ LiminalizeAgain
NextFlock == Simulate \/ MouseMove

\* The page: Game.init from the first timeout, resizes, the timer, the mouse
Spec == InitGame /\ [][NextGame]_vars
\* Map generation and repeated liminalize over all small maps and seed lists
SpecMap == InitMap /\ [][NextMap]_vars
\* A BoidManager of 1..MaxBoids boids under the timer and the mouse
SpecFlock == InitFlock /\ [][NextFlock]_vars

----------------------------------------------------------------------------
(* Properties of map generation (SpecMap) *)

Point(i) == PointsInScreen(map.width, map.height)[i]
Cells == 1..Len(map.array)
Seeds == 1..Len(centerPoints)
SeedDist(i, k) == GridSqrDist(Point(i), centerPoints[k].point)

\* Seed k is at minimal distance from cell i, and the first such seed
FirstNearest(i, k) ==
  /\ \A j \in Seeds : SeedDist(i, j) >= SeedDist(i, k)
  /\ \A j \in Seeds : j < k => SeedDist(i, j) > SeedDist(i, k)

\* C1: after generation every cell has the class of the seed at minimal
\* squared distance, and of the first such seed of the list on a tie.
C1_NearestFirstSeed ==
  count.generated = 1 =>
    \A i \in Cells : \E k \in Seeds :
      FirstNearest(i, k) /\ map.array[i].kind = centerPoints[k].kind

\* A generated map with a cell that two seeds of different classes tie for
C1_Witness ==
  /\ count.generated = 1
  /\ \E i \in Cells : \E j, k \in Seeds :
       /\ FirstNearest(i, j) /\ j < k
       /\ SeedDist(i, k) = SeedDist(i, j)
       /\ centerPoints[k].kind # centerPoints[j].kind

\* The in-bounds cells among the 8 that surround cell i, without wrap-around
Surrounding(i) ==
  {j \in Cells : /\ j # i
                 /\ Point(j)[1] - Point(i)[1] \in {-1, 0, 1}
                 /\ Point(j)[2] - Point(i)[2] \in {-1, 0, 1}}

\* C2: after classification and one liminalize on fresh tiles, a cell's edge
\* factor is 0 exactly if all its in-bounds surrounding cells have its class.
C2_EdgeZeroIffUniform ==
  (count.generated = 1 /\ count.liminalize = 1) =>
    \A i \in Cells :
      (map.array[i].edgeFactor = 0) <=>
        (\A j \in Surrounding(i) : map.array[j].kind = map.array[i].kind)

\* The cells MapTile.neighbors() yields for cell i
YieldedCells(i) ==
  {j \in Cells : Yielded(map, Point(i)[1], Point(i)[2], Point(j)[1], Point(j)[2])
                 /\ Point(j)[1] - Point(i)[1] \in {-1, 0, 1}
                 /\ Point(j)[2] - Point(i)[2] \in {-1, 0, 1}}

\* The edge factor one liminalize gives cell i on fresh tiles: a function of
\* the classes alone
FirstPassEdge(i) ==
  IF \E j \in YieldedCells(i) : map.array[j].kind # map.array[i].kind THEN 1 ELSE 0

----------------------------------------------------------------------------
(* Properties of the flock (SpecFlock) *)

Agents == 1..Len(boids)

\* The array as the boid at index i found it in the latest firing, if the
\* boids before it had been updated already and those after it not yet
Seen(i) == [j \in 1..Len(last.boids) |-> IF j < i THEN boids[j] ELSE last.boids[j]]

\* The squared distance of two positions, in steps
SqrSteps(a, b) ==
  (a[1].v - b[1].v) * (a[1].v - b[1].v) + (a[2].v - b[2].v) * (a[2].v - b[2].v)

Near == DISTANCE_THRESHOLD * UNIT * UNIT

\* C4: with a single agent the Cohesion and VelocityMatching contributions of
\* a rule-evaluating tick are the zero vector, and no NaN reaches the agent.
C4_SingleAgentZero ==
  (last.fired /\ Len(last.boids) = 1) =>
    /\ Thinks(last.frame) =>
         /\ CenterOfMassRule(last.boids, 1) = Zero
         /\ MatchVelocityRule(last.boids, 1) = Zero
    /\ ~IsNaN(boids[1].velocity)
    /\ ~IsNaN(boids[1].position)

\* The sum of (self.position - peer.position) over the peers j..Len(bs) of i
\* that pass the threshold test
RECURSIVE AwaySum(_, _, _)
AwaySum(bs, i, j) ==
  IF j > Len(bs) THEN Zero
  ELSE IF j # i /\ SqrSteps(bs[i].position, bs[j].position) < Near
       THEN VAdd(VSub(bs[i].position, bs[j].position), AwaySum(bs, i, j + 1))
       ELSE AwaySum(bs, i, j + 1)

\* C5: Separation accumulates (self.position - peer.position) over the peers
\* that pass the threshold test, so its positive weight pushes away from them.
C5_SeparationPointsAway ==
  (last.fired /\ Thinks(last.frame)) =>
    \A i \in Agents : AvoidanceRule(Seen(i), i) = AwaySum(Seen(i), i, 1)

\* What Separation returns for an agent with this one peer
PairAvoidance(self, peer) == AvoidanceRule(<<self, peer>>, 1)

RECURSIVE PairSum(_, _, _)
PairSum(bs, i, j) ==
  IF j > Len(bs) THEN Zero
  ELSE IF j # i THEN VAdd(PairAvoidance(bs[i], bs[j]), PairSum(bs, i, j + 1))
       ELSE PairSum(bs, i, j + 1)

\* C9: a peer contributes to an agent's Separation vector exactly if their
\* squared distance is strictly below distanceThreshold: a peer at the
\* threshold or beyond adds nothing, a nearer one adds its (nonzero) offset,
\* and the vector is the sum of the near peers' contributions.
C9_StrictThreshold ==
  (last.fired /\ Thinks(last.frame)) =>
    \A i \in Agents :
      LET bs == Seen(i)
      IN  /\ \A j \in Agents \ {i} :
                IF SqrSteps(bs[i].position, bs[j].position) >= Near
                THEN PairAvoidance(bs[i], bs[j]) = Zero
                ELSE PairAvoidance(bs[i], bs[j]) = Zero
                       <=> bs[j].position = bs[i].position
          /\ AvoidanceRule(bs, i) = PairSum(bs, i, 1)

\* A rule-evaluating firing in which some peer was exactly at the threshold,
\* some peer nearer and some peer farther
C9_Witness ==
  /\ last.fired /\ Thinks(last.frame) /\ Len(boids) >= 2
  /\ \E i \in Agents : \E j \in Agents \ {i} :
       SqrSteps(Seen(i)[i].position, Seen(i)[j].position) = Near
  /\ \E i \in Agents : \E j \in Agents \ {i} :
       /\ SqrSteps(Seen(i)[i].position, Seen(i)[j].position) < Near
       /\ SqrSteps(Seen(i)[i].position, Seen(i)[j].position) > 0
  /\ \E i \in Agents : \E j \in Agents \ {i} :
       SqrSteps(Seen(i)[i].position, Seen(i)[j].position) > Near

Abs(n) == IF n < 0 THEN -n ELSE n

\* position has moved by velocity / BOID_THINK_RATE, up to the rounding of
\* the one division; NaN velocity gives NaN position
MovedBySixth(before, after, velocity) ==
  \A c \in 1..2 :
    IF velocity[c].nan \/ before[c].nan THEN after[c].nan
    ELSE /\ ~after[c].nan
         /\ 2 * Abs(BOID_THINK_RATE * (after[c].v - before[c].v) - velocity[c].v)
              <= BOID_THINK_RATE

\* C6: every firing moves every agent's position by velocity / N once and
\* adds 1 to the tick counter; the weighted rule sum is added to the
\* velocities in the firings with k mod N = 0, for all agents alike, and in
\* the other firings every velocity is left as it was.
C6_TickSchedule ==
  last.fired =>
    /\ frameCount = last.frame + 1
    /\ Len(boids) = Len(last.boids)
    /\ \A i \in Agents :
         /\ MovedBySixth(last.boids[i].position, boids[i].position, boids[i].velocity)
         /\ last.frame % BOID_THINK_RATE # 0 =>
              boids[i].velocity = last.boids[i].velocity
         /\ last.frame % BOID_THINK_RATE = 0 =>
              boids[i].velocity =
                AddAll(last.boids[i].velocity,
                       RuleResults(Seen(i), i, last.mouse, map), 1)

\* The firing k = 6 has happened, after five firings that kept the (nonzero)
\* velocities, and it changed a velocity
C6_Witness ==
  /\ last.fired /\ last.frame = BOID_THINK_RATE
  /\ \E i \in Agents :
       /\ ~IsNaN(boids[i].velocity)
       /\ last.boids[i].velocity # Zero
       /\ boids[i].velocity # last.boids[i].velocity

\* C10: one firing updates the agents one after another in place: agent i is
\* updated from an array in which every peer j < i has its post-tick state
\* and every peer j > i its pre-tick state.
C10_SequentialInPlace ==
  last.fired =>
    /\ Len(boids) = Len(last.boids)
    /\ \A i \in Agents :
         boids[i] = BoidSimulate(Seen(i), i, last.frame, last.mouse, map)

\* A rule-evaluating firing whose result differs from the one a simultaneous
\* update from the pre-tick array gives, and from the one the reversed order
\* of two agents gives
C10_Witness ==
  /\ last.fired /\ Thinks(last.frame) /\ Len(boids) = 2
  /\ \E i \in Agents :
       boids[i] # BoidSimulate(last.boids, i, last.frame, last.mouse, map)
  /\ LET swapped == <<last.boids[2], last.boids[1]>>
         other == BoidManagerSimulate(swapped, last.frame, last.mouse, map)
     IN  boids # <<other[2], other[1]>>

----------------------------------------------------------------------------
(* Properties of the page (Spec) *)

\* C7: once a resize event that arrived after initialization (with a map and
\* a flock in use) has been handled, the map and the flock have been
\* allocated anew and the map has the size of the viewport over PIXEL_SIZE.
C7_ResizeReallocates ==
  (game.boidManager /\ count.lateResizes >= 1 /\ timeouts = <<>>) =>
    /\ map.width = Ceil(clientWidth, PIXEL_SIZE)
    /\ map.height = Ceil(clientHeight, PIXEL_SIZE)
    /\ count.inits >= 1 + count.lateResizes

\* C8: generation with a width or height <= 0 fails with InvalidDimension:
\* no map with such a size is ever constructed, generation raises no other
\* error, and no loop runs over such a map.
C8_InvalidDimension ==
  /\ map.built => (map.width > 0 /\ map.height > 0)
  /\ game.error \in {"none", "InvalidDimension"}
  /\ (game.rendering \/ game.interval) => (map.width > 0 /\ map.height > 0)

====
